---- MODULE Spec2Model ----
(***************************************************************************)
(* Model of brawlhalla.py: the dual-window token bucket (RateBucket) and   *)
(* the request pipeline BrawlhallaClient.__send_request.                   *)
(*                                                                         *)
(* Time is counted in ticks, TicksPerSec ticks to the second.  The         *)
(* 15-minute counter is a float in the source (it grows by                 *)
(* requests_per_15_minutes / 900 per elapsed second); the model keeps it   *)
(* exactly, multiplied by 900, so one token is 900 units.                  *)
(***************************************************************************)
EXTENDS Integers, Sequences, FiniteSets, TLC

\* ------------------------------------------------------------ bounds
TicksPerSec == 2          \* clock resolution: ticks per second
MaxTime     == 8          \* fine-grained clock steps are taken below this tick
MaxCommits  == 3          \* do_request calls made outside the check-then-commit protocol

\* ------------------------------------------------------------ program constants
Window15 == 900           \* seconds in 15 minutes: the divisor of the long refill

Min(a, b) == IF a < b THEN a ELSE b

\* ------------------------------------------------------------ RateBucket
\* RateBucket.__init__: both counters start full, the carry is empty.
RateBucket(requests_per_15_minutes, requests_per_second, t) ==
    [ requests_per_15_minutes         |-> requests_per_15_minutes,
      requests_per_second             |-> requests_per_second,
      allowed_requests_per_15_minutes |-> requests_per_15_minutes * Window15,
      allowed_requests_per_second     |-> requests_per_second,
      last_check_time                 |-> t,
      elapsed_time                    |-> 0 ]

\* __add_requests without the two capacity checks of lines 56-59.
add_requests_unclamped(b, t) ==
    LET e  == b.elapsed_time + (t - b.last_check_time)
        b1 == [b EXCEPT !.elapsed_time = e, !.last_check_time = t]
    IN  IF e > TicksPerSec
        THEN LET elapsed_seconds == e \div TicksPerSec
             IN  [b1 EXCEPT
                    !.elapsed_time = e - elapsed_seconds * TicksPerSec,
                    !.allowed_requests_per_15_minutes =
                        @ + elapsed_seconds * b.requests_per_15_minutes,
                    !.allowed_requests_per_second =
                        @ + elapsed_seconds * b.requests_per_second]
        ELSE b1

\* A refill that keeps no remainder after it has converted whole seconds.
add_requests_dropping(b, t) ==
    [add_requests_unclamped(b, t) EXCEPT
        !.elapsed_time = IF b.elapsed_time + (t - b.last_check_time) > TicksPerSec
                         THEN 0 ELSE @,
        !.allowed_requests_per_15_minutes =
            Min(@, b.requests_per_15_minutes * Window15),
        !.allowed_requests_per_second = Min(@, b.requests_per_second)]

\* RateBucket.__add_requests with time.time() = t.  elapsed_time is in ticks;
\* "elapsed_time > 1" is "more than one second"; int() truncates a positive value.
add_requests(b, t) ==
    LET e  == b.elapsed_time + (t - b.last_check_time)
        b1 == [b EXCEPT !.elapsed_time = e, !.last_check_time = t]
    IN  IF e > TicksPerSec
        THEN LET elapsed_seconds == e \div TicksPerSec
                 a15 == b.allowed_requests_per_15_minutes
                          + elapsed_seconds * b.requests_per_15_minutes
                 a1  == b.allowed_requests_per_second
                          + elapsed_seconds * b.requests_per_second
             IN  [b1 EXCEPT
                    !.elapsed_time = e - elapsed_seconds * TicksPerSec,
                    !.allowed_requests_per_15_minutes =
                        Min(a15, b.requests_per_15_minutes * Window15),
                    !.allowed_requests_per_second =
                        Min(a1, b.requests_per_second)]
        ELSE b1

\* The whole seconds __add_requests turns into credits at time t (lines 47-48).
refilled(b, t) ==
    LET e == b.elapsed_time + (t - b.last_check_time)
    IN  IF e > TicksPerSec THEN e \div TicksPerSec ELSE 0

\* The test with "more than one token" in place of "at least one".
Allowed_strict(b) ==
    /\ b.allowed_requests_per_15_minutes > Window15
    /\ b.allowed_requests_per_second > 1

\* The test of can_request on the counters (both hold at least one token).
Allowed(b) ==
    /\ b.allowed_requests_per_15_minutes >= Window15
    /\ b.allowed_requests_per_second >= 1

\* RateBucket.can_request: refill, then test; returns the bucket and the answer.
can_request(b, t) ==
    [bucket |-> add_requests(b, t), ret |-> Allowed(add_requests(b, t))]

\* get_next_request with its two tests in the other order (short counter first).
get_next_request_short_first(b, t) ==
    LET r == can_request(b, t)
    IN  [bucket |-> r.bucket,
         ret    |-> IF r.ret THEN 0
                    ELSE IF r.bucket.allowed_requests_per_second < 1 THEN 1
                    ELSE IF r.bucket.allowed_requests_per_15_minutes < Window15 THEN 5
                    ELSE -1]

\* RateBucket.get_next_request: seconds to wait; -1 stands for the final raise.
get_next_request(b, t) ==
    LET r == can_request(b, t)
    IN  [bucket |-> r.bucket,
         ret    |-> IF r.ret THEN 0
                    ELSE IF r.bucket.allowed_requests_per_15_minutes < Window15 THEN 5
                    ELSE IF r.bucket.allowed_requests_per_second < 1 THEN 1
                    ELSE -1]

\* A do_request that takes a token from the 15-minute counter only.
do_request_long_only(b) ==
    [b EXCEPT !.allowed_requests_per_15_minutes = @ - Window15]

\* RateBucket.do_request: one token from each counter.
do_request(b) ==
    [b EXCEPT !.allowed_requests_per_15_minutes = @ - Window15,
              !.allowed_requests_per_second = @ - 1]


\* ------------------------------------------------------------ configuration
MaxCalls    == 3          \* pipeline invocations in one behaviour
MaxAttempts == 2          \* attempts (original + retries) of one invocation
LongJump    == 450        \* seconds the clock may skip while nothing is pending
MaxClock    == 1000       \* ticks; no clock reading beyond this

NONE == -1                \* Python's None where a number is expected

\* The concurrent callers sharing one client.
Callers == {1, 2}

\* ClientOptions: the settings a client may be built with.
ClientOptions ==
    [ requests_per_15_minutes  : {2},
      requests_per_second      : {1, 2},
      use_internal_ratelimiter : BOOLEAN,
      max_timeout_time         : {NONE, 2},
      propagate_exceptions     : BOOLEAN,
      swallow_429              : BOOLEAN,
      retry_on_429             : BOOLEAN,
      retry_delay              : {1} ]

\* ------------------------------------------------------------ URL construction
\* A string is a sequence of pieces; "{}" is a replacement field of str.format.
\* A value is [kind, text]: its Python type and its f-string rendering.
PyNone     == [kind |-> "none", text |-> "None"]
PyInt(s)   == [kind |-> "int",  text |-> s]
PyStr(s)   == [kind |-> "str",  text |-> s]
\* A member of an Enum class: str.format writes it as "Class.MEMBER".
PyEnum(s)  == [kind |-> "enum", text |-> s]

\* Python truthiness of a value (the filter "if kvargs[x]").
Truthy(v) ==
    ~ \/ v.kind = "none"
      \/ v.kind = "int" /\ v.text = "0"
      \/ v.kind = "str" /\ v.text = ""

\* str.format(*args): the i-th "{}" is replaced by the i-th argument.
RECURSIVE format(_, _)
format(template, args) ==
    IF template = <<>> THEN <<>>
    ELSE IF Head(template) = "{}"
         THEN <<Head(args).text>> \o format(Tail(template), Tail(args))
         ELSE <<Head(template)>> \o format(Tail(template), args)

\* The loop of __resolve_query_params over the kept keys.
RECURSIVE query_string(_, _)
query_string(kv, acc) ==
    IF kv = <<>> THEN acc
    ELSE LET key == Head(kv)[1]
             val == Head(kv)[2]
         IN  IF ~Truthy(val) THEN query_string(Tail(kv), acc)
             ELSE IF acc = <<>>
                  THEN query_string(Tail(kv), <<"?", key, "=", val.text>>)
                  ELSE query_string(Tail(kv), acc \o <<"&", key, "=", val.text>>)

\* kvargs["api_key"] = self.api_key on a dict: replaces the value of an existing
\* key in place, else appends the key.
RECURSIVE set_key(_, _, _)
set_key(kv, key, val) ==
    IF kv = <<>> THEN << <<key, val>> >>
    ELSE IF Head(kv)[1] = key THEN << <<key, val>> >> \o Tail(kv)
         ELSE <<Head(kv)>> \o set_key(Tail(kv), key, val)

resolve_query_params(api_key, kvargs) ==
    query_string(set_key(kvargs, "api_key", api_key), <<>>)

resolve_endpoint(api_key, endpoint, args, kvargs) ==
    <<"https://api.brawlhalla.com/">> \o format(endpoint, args) \o <<"/">>
        \o resolve_query_params(api_key, kvargs)

\* ------------------------------------------------------------ outcomes
\* What a call gives its caller: pending, a Response, None, or a raised exception.
Pending == [kind |-> "pending", exc |-> "", status |-> 0, reason |-> "",
            detail |-> "", attempt |-> 0]
Absent  == [Pending EXCEPT !.kind = "none"]
Success(body, n) ==
    [Pending EXCEPT !.kind = "success", !.status = 200, !.detail = body, !.attempt = n]
Raised(exc, status, reason, detail) ==
    [Pending EXCEPT !.kind = "raise", !.exc = exc, !.status = status,
                    !.reason = reason, !.detail = detail]
BrawlhallaPyException(status, reason, detail) ==
    Raised("BrawlhallaPyException", status, reason, detail)
\* The 429 branch with swallow_429 and retry_on_429: sleep, then call again.
RetryLater == [Pending EXCEPT !.kind = "retry"]

\* response.reason: the reason phrase the server sends with a status.
Reason(status) ==
    CASE status = 200 -> "OK"
      [] status = 429 -> "Too Many Requests"
      [] status = 404 -> "Not Found"
      [] OTHER        -> "Internal Server Error"

\* The message of an error body {"error": {"message": ...}}.
ErrorMessage(status) == IF status = 404 THEN "Not found" ELSE "Server error"

\* The handler "except Exception as e" of __send_request.
except_Exception(opts, e) ==
    IF opts.propagate_exceptions THEN e ELSE Absent

\* The timeout left to the general handler, as if line 126 were missing.
except_TimeoutError_general(opts) ==
    IF opts.propagate_exceptions THEN Raised("TimeoutError", 0, "", "") ELSE Absent

\* "except asyncio.TimeoutError: return None".
except_TimeoutError(opts) == Absent

\* The bodies a response may carry:
\*   "empty"   no content: response.json() gives None
\*   "invalid" not JSON: response.json() raises
\*   "scalar"  a JSON number or string
\*   "array"   a JSON array of objects
\*   "object"  a JSON object without an "error" member
\*   "error"   a JSON object {"error": {"message": ...}}
\* response.json(), then Response(data) (API.py): the 200 branch.
on_200(opts, body, n) ==
    CASE body = "invalid"            -> except_Exception(opts, Raised("JSONDecodeError", 0, "", ""))
      [] body \in {"empty", "scalar"} -> except_Exception(opts, Raised("NotImplementedError", 0, "", ""))
      [] OTHER                        -> Success(body, n)

\* The 429 branch with the test of retry_on_429 inverted.
on_429_inverted(opts) ==
    IF opts.swallow_429
    THEN IF ~opts.retry_on_429 THEN RetryLater ELSE Absent
    ELSE except_Exception(opts,
            BrawlhallaPyException(429, "Too Many Requests",
                                  "Your API key has hit the rate limit."))

\* The 429 branch.
on_429(opts) ==
    IF opts.swallow_429
    THEN IF opts.retry_on_429 THEN RetryLater ELSE Absent
    ELSE except_Exception(opts,
            BrawlhallaPyException(429, "Too Many Requests",
                                  "Your API key has hit the rate limit."))

\* The branch of every other status with the parsed message never used.
on_error_placeholder(opts, status, body) ==
    CASE body = "invalid" -> except_Exception(opts, Raised("JSONDecodeError", 0, "", ""))
      [] OTHER            -> except_Exception(opts,
                                BrawlhallaPyException(status, Reason(status), "No further details."))

\* The branch of every other status.
on_error(opts, status, body) ==
    CASE body = "invalid" -> except_Exception(opts, Raised("JSONDecodeError", 0, "", ""))
      [] body = "empty"   -> except_Exception(opts,
                                BrawlhallaPyException(status, Reason(status), "No further details."))
      [] body = "error"   -> except_Exception(opts,
                                BrawlhallaPyException(status, Reason(status), ErrorMessage(status)))
      [] body = "object"  -> except_Exception(opts, Raised("KeyError", 0, "", ""))
      [] OTHER            -> except_Exception(opts, Raised("TypeError", 0, "", ""))

\* "return await self.__send_request(...)" in the n-th nested call: what the
\* inner call raises passes the handler of each enclosing call (lines 128-133).
RECURSIVE unwind(_, _, _)
unwind(opts, o, n) ==
    IF n <= 1 \/ o.kind # "raise" THEN o
    ELSE unwind(opts, except_Exception(opts, o), n - 1)

\* The body of "async with self.session.get(endpoint) as response".
on_response(opts, status, body, n) ==
    IF status = 200 THEN on_200(opts, body, n)
    ELSE IF status = 429 THEN on_429(opts)
    ELSE on_error(opts, status, body)

\* Ticks a response takes to arrive.
Latencies == {1, 3, 5}

\* The responses the server is taken to send: status, body, latency.
Responses ==
    { <<200, "object">>, <<200, "array">>, <<429, "empty">>,
      <<500, "error">>, <<500, "empty">>, <<500, "invalid">>, <<500, "object">>,
      <<404, "error">> } \X Latencies

\* The calls a caller makes: endpoint template, positional and named arguments.
Calls ==
    { [endpoint |-> <<"legend/", "{}">>, args |-> <<PyInt("3")>>, kvargs |-> <<>>],
      [endpoint |-> <<"search">>, args |-> <<>>,
       kvargs |-> << <<"steamid", PyInt("7")>> >>] }

api_key == PyStr("KEY")

\* ------------------------------------------------------------ state
VARIABLES
    now,         \* the clock (time.time() and the event loop's clock), in ticks
    options,     \* the client's ClientOptions
    bucket,      \* the client's RateBucket (untouched when the limiter is off)
    pc,          \* per caller: "idle", "admit", "await", "retry_sleep", "done"
    req,         \* per caller: endpoint, args, kvargs of the running __send_request
    timer,       \* per caller: when its pending sleep ends or its response arrives
    deadlines,   \* per caller: the deadlines of the timeout blocks it is inside
    attempts,    \* per caller: the requests dispatched for the current call
    result,      \* per caller: what the call gave
    dispatched,  \* the times of all dispatches of the client, in order
    calls,       \* the number of calls made so far
    admitted,    \* bucket alone: the last operation was can_request giving True
    commits,     \* the number of do_request calls so far
    converted,   \* the whole seconds __add_requests has turned into credits so far
    wait         \* the last value get_next_request returned (None: not called yet)

vars == <<now, options, bucket, pc, req, timer, deadlines, attempts, result,
          dispatched, calls, admitted, commits, converted, wait>>

NoCall == [endpoint |-> <<>>, args |-> <<>>, kvargs |-> <<>>]

\* BrawlhallaClient.__init__ with client_options = opts, at time 0.
Start(opts) ==
    /\ now = 0
    /\ options = opts
    /\ bucket = RateBucket(options.requests_per_15_minutes,
                           options.requests_per_second, 0)
    /\ pc = [c \in Callers |-> "idle"]
    /\ req = [c \in Callers |-> NoCall]
    /\ timer = [c \in Callers |-> 0]
    /\ deadlines = [c \in Callers |-> <<>>]
    /\ attempts = [c \in Callers |-> <<>>]
    /\ result = [c \in Callers |-> Pending]
    /\ dispatched = <<>>
    /\ calls = 0
    /\ admitted = FALSE
    /\ commits = 0
    /\ converted = 0
    /\ wait = NONE

\* A client built with any of the options of ClientOptions, no call made yet.
Init == \E opts \in ClientOptions : Start(opts)

Last(s) == s[Len(s)]

\* A caller calls an API method, which awaits __send_request(endpoint, ...);
\* max_calls bounds the calls of one behaviour.
Invoke(c, call, max_calls) ==
    /\ pc[c] \in {"idle", "done"}
    /\ calls < max_calls
    /\ calls' = calls + 1
    /\ pc' = [pc EXCEPT ![c] = "admit"]
    /\ req' = [req EXCEPT ![c] = call]
    /\ timer' = [timer EXCEPT ![c] = now]
    /\ deadlines' = [deadlines EXCEPT ![c] = <<>>]
    /\ attempts' = [attempts EXCEPT ![c] = <<>>]
    /\ result' = [result EXCEPT ![c] = Pending]
    /\ UNCHANGED <<now, options, bucket, dispatched, admitted, commits, converted, wait>>

\* A timeout block that arms no deadline.
timeout_disabled(max_timeout_time) == NONE

\* The deadline a timeout block entered now gets (None: no deadline).
timeout(max_timeout_time) ==
    IF max_timeout_time = NONE THEN NONE ELSE now + max_timeout_time * TicksPerSec

\* Lines 100-104: build the URL (rebinding endpoint), enter the timeout block and
\* send the GET.  The server's answer and its latency are fixed at dispatch,
\* drawn from served: <<<<status, body>>, latency>>.
Dispatch(c, served) ==
    LET url == resolve_endpoint(api_key, req[c].endpoint, req[c].args, req[c].kvargs)
    IN  \E r \in served :
          /\ (r[1][1] = 429 /\ on_429(options).kind = "retry")
                => Len(attempts[c]) + 1 < MaxAttempts
          /\ req' = [req EXCEPT ![c].endpoint = url]
          /\ deadlines' = [deadlines EXCEPT
                             ![c] = Append(@, timeout(options.max_timeout_time))]
          /\ attempts' = [attempts EXCEPT
                            ![c] = Append(@, [url |-> url, at |-> now, status |-> r[1][1],
                                              body |-> r[1][2], latency |-> r[2],
                                              received |-> FALSE])]
          /\ timer' = [timer EXCEPT ![c] = now + r[2]]
          /\ pc' = [pc EXCEPT ![c] = "await"]
          /\ dispatched' = Append(dispatched, now)
          /\ UNCHANGED result

\* An admission that commits and dispatches without asking can_request.
Admission_unchecked(c, served) ==
    /\ bucket' = do_request(add_requests(bucket, now))
    /\ commits' = commits + 1
    /\ converted' = converted + refilled(bucket, now)
    /\ UNCHANGED wait
    /\ Dispatch(c, served)

\* Lines 95-98, one pass from the top of __send_request or from the end of a
\* sleep to the next suspension: dispatch, or sleep get_next_request() seconds.
Admission(c, served) ==
    IF ~options.use_internal_ratelimiter
    THEN Dispatch(c, served) /\ UNCHANGED <<bucket, commits, converted, wait>>
    ELSE LET r == can_request(bucket, now)
         IN  IF r.ret
             THEN /\ bucket' = do_request(r.bucket)
                  /\ commits' = commits + 1
                  /\ converted' = converted + refilled(bucket, now)
                  /\ UNCHANGED wait
                  /\ Dispatch(c, served)
             ELSE LET g == get_next_request(r.bucket, now)
                  IN  /\ bucket' = g.bucket
                      /\ converted' = converted + refilled(bucket, now)
                                                 + refilled(r.bucket, now)
                      /\ UNCHANGED commits
                      /\ wait' = g.ret
                      /\ IF g.ret = -1
                         THEN /\ pc' = [pc EXCEPT ![c] = "done"]
                              /\ result' = [result EXCEPT
                                    ![c] = Raised("Exception", 0, "", "Request should be allowed.")]
                              /\ UNCHANGED timer
                         ELSE /\ timer' = [timer EXCEPT ![c] = now + g.ret * TicksPerSec]
                              /\ pc' = [pc EXCEPT ![c] = "admit"]
                              /\ UNCHANGED result
                      /\ UNCHANGED <<req, deadlines, attempts, dispatched>>

\* The admission loop of a call (first run, or after its sleep).
Admit(c, served) ==
    /\ pc[c] = "admit"
    /\ timer[c] <= now
    /\ Admission(c, served)
    /\ UNCHANGED <<now, options, calls, admitted>>

\* The response of the awaited request arrives and is handled (lines 104-125,
\* the handlers of lines 128-133 included).
Respond(c) ==
    /\ pc[c] = "await"
    /\ timer[c] <= now
    /\ LET a == Last(attempts[c])
           o == unwind(options,
                       on_response(options, a.status, a.body, Len(attempts[c])),
                       Len(attempts[c]))
       IN  /\ attempts' = [attempts EXCEPT ![c][Len(attempts[c])].received = TRUE]
           /\ IF o.kind = "retry"
              THEN /\ pc' = [pc EXCEPT ![c] = "retry_sleep"]
                   /\ timer' = [timer EXCEPT ![c] = now + options.retry_delay * TicksPerSec]
                   /\ UNCHANGED result
              ELSE /\ pc' = [pc EXCEPT ![c] = "done"]
                   /\ result' = [result EXCEPT ![c] = o]
                   /\ UNCHANGED timer
    /\ UNCHANGED <<now, options, bucket, req, deadlines, dispatched, calls, admitted,
                   commits, converted, wait>>

\* Line 112 after the sleep of line 111: __send_request calls itself, with the
\* rebound endpoint, and runs to its first suspension.
Retry(c, served) ==
    /\ pc[c] = "retry_sleep"
    /\ timer[c] <= now
    /\ Admission(c, served)
    /\ UNCHANGED <<now, options, calls, admitted>>

\* The deadline of a timeout block the caller is inside has come.
Expired(c) ==
    \E i \in 1 .. Len(deadlines[c]) : deadlines[c][i] # NONE /\ deadlines[c][i] <= now

\* async_timeout cancels the task at its current await (a sleep of the admission
\* loop, the retry sleep, or the wait for a response); the block whose deadline
\* came turns the cancellation into asyncio.TimeoutError, and line 126 returns
\* None, which every enclosing __send_request returns in turn.
Timeout(c) ==
    /\ pc[c] \in {"admit", "await", "retry_sleep"}
    /\ Expired(c)
    /\ pc' = [pc EXCEPT ![c] = "done"]
    /\ result' = [result EXCEPT ![c] = except_TimeoutError(options)]
    /\ UNCHANGED <<now, options, bucket, req, timer, deadlines, attempts,
                   dispatched, calls, admitted, commits, converted, wait>>

Busy(c) == pc[c] \in {"admit", "await", "retry_sleep"}

\* Nothing is due: no sleep has ended, no response has arrived, no deadline has come.
NothingDue ==
    \A c \in Callers : Busy(c) => timer[c] > now /\ ~Expired(c)

\* The clock advances by one tick.
Tick ==
    /\ now < MaxTime
    /\ NothingDue
    /\ now' = now + 1
    /\ UNCHANGED <<options, bucket, pc, req, timer, deadlines, attempts, result,
                   dispatched, calls, admitted, commits, converted, wait>>

\* A quiet period: no call is running and the clock advances by LongJump seconds.
Quiet ==
    /\ \A c \in Callers : ~Busy(c)
    /\ now + LongJump * TicksPerSec <= MaxClock
    /\ now' = now + LongJump * TicksPerSec
    /\ UNCHANGED <<options, bucket, pc, req, timer, deadlines, attempts, result,
                   dispatched, calls, admitted, commits, converted, wait>>

\* One call on the client, the server answering in every way of Responses:
\* the policy of a call.
Next ==
    \/ \E c \in Callers, call \in Calls : Invoke(c, call, 1)
    \/ \E c \in Callers : Admit(c, Responses)
    \/ \E c \in Callers : Respond(c)
    \/ \E c \in Callers : Retry(c, Responses)
    \/ \E c \in Callers : Timeout(c)
    \/ Tick

Spec == Init /\ [][Next]_vars

\* What the server answers in the behaviours that are about the rate of dispatch.
RateResponses == { <<200, "object">>, <<429, "empty">> } \X {1}

\* A client with the limiter on; the policy flags that do not bear on the rate
\* are the defaults.
RateInit ==
    /\ Init
    /\ options.use_internal_ratelimiter
    /\ options.propagate_exceptions
    /\ options.swallow_429

\* Up to MaxCalls calls, concurrent and in sequence, on one client.
RateNext ==
    \/ \E c \in Callers, call \in Calls : Invoke(c, call, MaxCalls)
    \/ \E c \in Callers : Admit(c, RateResponses)
    \/ \E c \in Callers : Respond(c)
    \/ \E c \in Callers : Retry(c, RateResponses)
    \/ \E c \in Callers : Timeout(c)
    \/ Tick
    \/ Quiet

RateSpec == RateInit /\ [][RateNext]_vars


\* ------------------------------------------------------------ the bucket alone
\* The readings the wall clock may jump between, forward and backward.
BucketClock ==
    (0 .. MaxTime) \cup { LongJump * TicksPerSec, LongJump * TicksPerSec + 1 }

\* time.time() changes: a positive, zero or negative jump.
SetClock(t) ==
    /\ t <= MaxClock
    /\ now' = t
    /\ UNCHANGED <<options, bucket, pc, req, timer, deadlines, attempts, result,
                   dispatched, calls, admitted, commits, converted, wait>>

CanRequest ==
    /\ bucket' = can_request(bucket, now).bucket
    /\ admitted' = can_request(bucket, now).ret
    /\ converted' = converted + refilled(bucket, now)
    /\ UNCHANGED <<now, options, pc, req, timer, deadlines, attempts, result,
                   dispatched, calls, commits, wait>>

GetNextRequest ==
    /\ bucket' = get_next_request(bucket, now).bucket
    /\ admitted' = FALSE
    /\ converted' = converted + refilled(bucket, now)
    /\ wait' = get_next_request(bucket, now).ret
    /\ UNCHANGED <<now, options, pc, req, timer, deadlines, attempts, result,
                   dispatched, calls, commits>>

\* do_request, called only directly after can_request returned True.
DoRequest ==
    /\ admitted
    /\ bucket' = do_request(bucket)
    /\ admitted' = FALSE
    /\ commits' = commits + 1
    /\ UNCHANGED <<now, options, pc, req, timer, deadlines, attempts, result,
                   dispatched, calls, converted, wait>>

BucketNext ==
    \/ \E t \in BucketClock : SetClock(t)
    \/ CanRequest
    \/ GetNextRequest
    \/ DoRequest

BucketSpec == RateInit /\ [][BucketNext]_vars


\* ------------------------------------------------------------ default options
\* ClientOptions as the class defines it: no attribute overridden.
DefaultOptions ==
    [ requests_per_15_minutes  |-> 180,
      requests_per_second      |-> 10,
      use_internal_ratelimiter |-> TRUE,
      max_timeout_time         |-> NONE,
      propagate_exceptions     |-> TRUE,
      swallow_429              |-> TRUE,
      retry_on_429             |-> FALSE,
      retry_delay              |-> 60 ]

\* The latency of a response that never arrives.
NeverArrives == MaxClock + 1

\* Answers that come at once or never.
SlowResponses == { <<200, "object">>, <<500, "error">> } \X {1, NeverArrives}

\* The default client, and the default client with a timeout of 2 seconds.
DefaultInit ==
    \/ Start(DefaultOptions)
    \/ Start([DefaultOptions EXCEPT !.max_timeout_time = 2])

\* One call on such a client.
DefaultNext ==
    \/ \E c \in Callers, call \in Calls : Invoke(c, call, 1)
    \/ \E c \in Callers : Admit(c, SlowResponses)
    \/ \E c \in Callers : Respond(c)
    \/ \E c \in Callers : Timeout(c)
    \/ Tick

DefaultSpec == DefaultInit /\ [][DefaultNext]_vars

\* ------------------------------------------------------------ a burst on a fresh bucket
\* Fresh clients whose sustained limit exceeds the burst limit: the default
\* (10 a second, 180 in 15 minutes) and two small ones.
BurstOptions ==
    { DefaultOptions,
      [DefaultOptions EXCEPT !.requests_per_second = 2, !.requests_per_15_minutes = 3],
      [DefaultOptions EXCEPT !.requests_per_second = 1, !.requests_per_15_minutes = 2] }

BurstInit == \E opts \in BurstOptions : Start(opts)

\* The bucket's methods under a clock that only advances.
BurstNext ==
    \/ Tick
    \/ CanRequest
    \/ GetNextRequest
    \/ DoRequest

BurstSpec == BurstInit /\ [][BurstNext]_vars

\* ------------------------------------------------------------ do_request on its own
\* do_request called whatever the last can_request answered: the method tests
\* nothing itself.
DoRequestUnchecked ==
    /\ commits < MaxCommits
    /\ bucket' = do_request(bucket)
    /\ admitted' = FALSE
    /\ commits' = commits + 1
    /\ UNCHANGED <<now, options, pc, req, timer, deadlines, attempts, result,
                   dispatched, calls, converted, wait>>

\* A user of the bucket that does not keep to the check-then-commit protocol.
DirectNext ==
    \/ Tick
    \/ CanRequest
    \/ DoRequestUnchecked

DirectSpec == RateInit /\ [][DirectNext]_vars

\* ------------------------------------------------------------ get_legend_info
\* Legends.BODVAR, the member declared with the ID 3.
Legends_BODVAR == PyEnum("Legends.BODVAR")

\* BrawlhallaClient.get_legend_info as the class ends up with it: the second
\* definition of that name (legend: int) replaces the first (legend: Legends),
\* and passes its argument to "legend/{}" as it is.
get_legend_info(legend) ==
    [endpoint |-> <<"legend/", "{}">>, args |-> <<legend>>, kvargs |-> <<>>]

\* The two ways of asking for the legend 3.
LegendCalls == { get_legend_info(PyInt("3")), get_legend_info(Legends_BODVAR) }

LegendResponses == { <<200, "object">>, <<404, "error">> } \X {1}

\* Calls of get_legend_info on the default client.
LegendNext ==
    \/ \E c \in Callers, call \in LegendCalls : Invoke(c, call, MaxCalls)
    \/ \E c \in Callers : Admit(c, LegendResponses)
    \/ \E c \in Callers : Respond(c)
    \/ Tick

LegendSpec == Start(DefaultOptions) /\ [][LegendNext]_vars

\* ------------------------------------------------------------ malformed bodies
\* 200 responses whose body is an object, a JSON number or string, or nothing.
MalformedResponses ==
    { <<200, "object">>, <<200, "scalar">>, <<200, "empty">> } \X {1}

\* One call, answered 200 with one of these bodies.
MalformedNext ==
    \/ \E c \in Callers, call \in Calls : Invoke(c, call, 1)
    \/ \E c \in Callers : Admit(c, MalformedResponses)
    \/ \E c \in Callers : Respond(c)
    \/ Tick

MalformedSpec == Init /\ [][MalformedNext]_vars

\* ------------------------------------------------------------ URL construction
\* get_player_from_steam_id(steam_id): "search" with steamid=steam_id.
get_player_from_steam_id(steam_id) ==
    [endpoint |-> <<"search">>, args |-> <<>>,
     kvargs |-> << <<"steamid", steam_id>> >>]

\* get_ranked_page(bracket, region, page, name): three positional arguments and
\* name=name.
get_ranked_page(bracket, region, page, name) ==
    [endpoint |-> <<"rankings/", "{}", "/", "{}", "/", "{}">>,
     args |-> <<bracket, region, page>>,
     kvargs |-> << <<"name", name>> >>]

\* Calls whose named parameter is present, zero, empty or None.
UrlCalls ==
    { get_player_from_steam_id(v) :
        v \in {PyInt("7"), PyInt("0"), PyStr(""), PyNone} }
    \cup
    { get_ranked_page(PyStr("1v1"), PyStr("all"), PyInt("1"), n) :
        n \in {PyStr("bob"), PyStr(""), PyNone} }

\* One of these calls on the default client.
UrlNext ==
    \/ \E c \in Callers, call \in UrlCalls : Invoke(c, call, 1)
    \/ \E c \in Callers : Admit(c, LegendResponses)
    \/ \E c \in Callers : Respond(c)
    \/ Tick

UrlSpec == Start(DefaultOptions) /\ [][UrlNext]_vars

\* ------------------------------------------------------------ claims
Done(c)     == pc[c] = "done"
\* The call's last attempt got its response (Respond handled it).
Received(c) == attempts[c] # <<>> /\ Last(attempts[c]).received
\* The number of dispatches from the i-th on that lie less than width ticks after it.
InWindow(i, width) ==
    Cardinality({ j \in i .. Len(dispatched) : dispatched[j] - dispatched[i] < width })
\* The response of attempt a comes before the timeout of its own dispatch.
InTime(a) ==
    options.max_timeout_time = NONE \/ a.latency < options.max_timeout_time * TicksPerSec

\* C1: with the limiter on, no window of one second holds more dispatches than
\* requests_per_second.
C1_PerSecondLimit ==
    \A i \in 1 .. Len(dispatched) :
        InWindow(i, TicksPerSec) <= options.requests_per_second

\* C2: with the limiter on, no window of 900 seconds holds more dispatches than
\* requests_per_15_minutes.
C2_Per15MinutesLimit ==
    \A i \in 1 .. Len(dispatched) :
        InWindow(i, Window15 * TicksPerSec) <= options.requests_per_15_minutes

\* C3: whatever the clock does (forward, still, backward), with do_request only
\* directly after can_request gave True, both counters stay within 0 and their
\* capacity.
C3_CountersInRange ==
    /\ 0 <= bucket.allowed_requests_per_second
    /\ bucket.allowed_requests_per_second <= bucket.requests_per_second
    /\ 0 <= bucket.allowed_requests_per_15_minutes
    /\ bucket.allowed_requests_per_15_minutes <= bucket.requests_per_15_minutes * Window15

\* C3 witness: a refill has seen a backward jump (negative carry), every long
\* token has been committed and the short counter has been refilled to capacity.
C3_Witness ==
    /\ bucket.elapsed_time < 0
    /\ bucket.allowed_requests_per_15_minutes < Window15
    /\ bucket.allowed_requests_per_second = bucket.requests_per_second
    /\ now >= LongJump * TicksPerSec

\* C4: swallow_429 and retry_on_429 set, first attempt answered 429, retried
\* attempt answered 200, each answer within the timeout of its own dispatch: the
\* call gives the payload of the retried attempt, which was dispatched no
\* earlier than retry_delay after the 429 came.
C4_RetryGivesSuccess ==
    \A c \in Callers :
        ( /\ Done(c)
          /\ options.swallow_429 /\ options.retry_on_429
          /\ Len(attempts[c]) = 2
          /\ attempts[c][1].status = 429 /\ InTime(attempts[c][1])
          /\ attempts[c][2].status = 200 /\ InTime(attempts[c][2]) )
        => /\ result[c] = Success(attempts[c][2].body, 2)
           /\ attempts[c][2].at >= attempts[c][1].at + attempts[c][1].latency
                                     + options.retry_delay * TicksPerSec

\* C5: every retried attempt of a call is dispatched to the URL of the first.
C5_RetrySameURL ==
    \A c \in Callers : \A i \in 1 .. Len(attempts[c]) :
        attempts[c][i].url = attempts[c][1].url

\* C6: with swallow_429 off, a 429 is raised to the caller as a rate-limit
\* error of status 429, whatever propagate_exceptions is.
C6_Unswallowed429Raised ==
    \A c \in Callers :
        ( Done(c) /\ Received(c) /\ Last(attempts[c]).status = 429
          /\ ~options.swallow_429 )
        => result[c].kind = "raise" /\ result[c].status = 429

\* C7: with swallow_429 on and retry_on_429 off, a 429 gives None, raises
\* nothing, and the call has dispatched one attempt only.
C7_Swallowed429IsAbsent ==
    \A c \in Callers :
        ( options.swallow_429 /\ ~options.retry_on_429
          /\ Received(c) /\ Last(attempts[c]).status = 429 )
        => Done(c) /\ result[c] = Absent /\ Len(attempts[c]) = 1

\* C7 witness: such a call, with propagate_exceptions on.
C7_Witness ==
    \E c \in Callers :
        /\ options.swallow_429 /\ ~options.retry_on_429 /\ options.propagate_exceptions
        /\ Received(c) /\ Last(attempts[c]).status = 429
        /\ Done(c) /\ result[c].kind = "none"

\* C8: a response of another status than 200 and 429 whose body carries an
\* error message: with propagate_exceptions the call raises the error with that
\* status, the reason phrase and the message; without, it gives None.
C8_ErrorWithDetail ==
    \A c \in Callers :
        ( Done(c) /\ Received(c) /\ Last(attempts[c]).status \notin {200, 429}
          /\ Last(attempts[c]).body = "error" )
        => result[c] = IF options.propagate_exceptions
                       THEN BrawlhallaPyException(Last(attempts[c]).status,
                                                  Reason(Last(attempts[c]).status),
                                                  ErrorMessage(Last(attempts[c]).status))
                       ELSE Absent

\* C8 witness: a 500 with a message, raised from a retried attempt.
C8_Witness ==
    \E c \in Callers :
        /\ Done(c) /\ Received(c) /\ Len(attempts[c]) = 2
        /\ Last(attempts[c]).status = 500 /\ Last(attempts[c]).body = "error"
        /\ result[c].kind = "raise" /\ result[c].detail = "Server error"

\* C9: a response of another status than 200 and 429 whose body has no usable
\* error detail (empty, not parseable, or without the error member): with
\* propagate_exceptions the call raises the error with the status, the reason
\* and the placeholder detail.
C9_ErrorWithoutDetail ==
    \A c \in Callers :
        ( Done(c) /\ Received(c) /\ Last(attempts[c]).status \notin {200, 429}
          /\ Last(attempts[c]).body \in {"empty", "invalid", "object"}
          /\ options.propagate_exceptions )
        => result[c] = BrawlhallaPyException(Last(attempts[c]).status,
                                             Reason(Last(attempts[c]).status),
                                             "No further details.")

\* C10: a call whose awaited response did not come within the timeout gives
\* None and raises nothing, whatever the three policy flags are.
C10_TimeoutIsAbsent ==
    \A c \in Callers :
        ( Done(c) /\ attempts[c] # <<>> /\ ~Last(attempts[c]).received /\ Expired(c) )
        => result[c] = Absent

\* C10 witness: the first attempt timed out, with propagate_exceptions on and
\* swallow_429 off.
C10_Witness ==
    \E c \in Callers :
        /\ Done(c) /\ Len(attempts[c]) = 1 /\ ~Last(attempts[c]).received
        /\ Expired(c) /\ ~InTime(Last(attempts[c]))
        /\ options.propagate_exceptions /\ ~options.swallow_429
        /\ result[c].kind = "none"


\* C11 as claimed: with the default options a request that is awaited has a
\* deadline (about 10 seconds after its dispatch), so the call cannot wait for
\* ever.
C11_DefaultHasDeadline ==
    \A c \in Callers :
        (options = DefaultOptions /\ pc[c] = "await")
        => Last(deadlines[c]) # NONE

\* C11 amended: while the response of the last dispatched request has not come,
\* a client without max_timeout_time (the default) arms no deadline and keeps
\* the call waiting; a client with max_timeout_time = T keeps it waiting no
\* longer than T seconds after the dispatch and then gives None.
C11_TimeoutOnlyWhenSet ==
    \A c \in Callers :
        (attempts[c] # <<>> /\ ~Last(attempts[c]).received)
        => IF options.max_timeout_time = NONE
           THEN pc[c] = "await" /\ Last(deadlines[c]) = NONE
           ELSE \/ /\ pc[c] = "await"
                   /\ now <= Last(attempts[c]).at + options.max_timeout_time * TicksPerSec
                \/ Done(c) /\ result[c] = Absent

\* C11 witness: the default client still waits, more than 2 seconds after the
\* dispatch, for a response that never arrives.
C11_Witness ==
    \E c \in Callers :
        /\ options = DefaultOptions
        /\ pc[c] = "await"
        /\ Last(attempts[c]).latency = NeverArrives
        /\ now > Last(attempts[c]).at + 2 * TicksPerSec


\* C12: on a fresh bucket with burst limit B and a larger sustained limit,
\* during the first second after construction: at most B cycles of can_request
\* and do_request are made, each of the first B is allowed at once, and after
\* the B-th can_request answers False and get_next_request a wait above zero.
C12_BurstThenDenied ==
    LET B == options.requests_per_second
    IN  now < TicksPerSec
        => /\ commits <= B
           /\ commits < B => can_request(bucket, now).ret
           /\ commits = B => /\ ~can_request(bucket, now).ret
                             /\ get_next_request(bucket, now).ret > 0

\* C12 witness: 10 cycles done on the default bucket within the first second,
\* the 11th can_request denied and get_next_request has answered 1 second.
C12_Witness ==
    /\ options = DefaultOptions
    /\ commits = options.requests_per_second
    /\ 0 < now /\ now < TicksPerSec
    /\ ~admitted
    /\ wait = 1


\* C13 as claimed: a do_request made while a counter holds less than one token
\* leaves both counters as they were.
C13_CommitNeedsTokens ==
    [][(commits' = commits + 1 /\ ~Allowed(bucket)) => bucket' = bucket]_vars


\* C14 as claimed: get_legend_info(Legends.BODVAR) dispatches the request that
\* get_legend_info(3) dispatches, to the path legend/3.
C14_EnumSameAsInt ==
    \A c \in Callers :
        (req[c].args = <<Legends_BODVAR>> /\ attempts[c] # <<>>)
        => attempts[c][1].url =
              resolve_endpoint(api_key, <<"legend/", "{}">>, <<PyInt("3")>>, <<>>)


\* C15: with callers sharing one client, every step that dispatches a request
\* (first attempt or retried) makes exactly one do_request, every do_request is
\* made on the counters as the can_request of the same step left them, that
\* can_request having answered True, and no counter ends below zero.
C15_CommitPerDispatch ==
    [][ /\ commits' - commits = Len(dispatched') - Len(dispatched)
        /\ commits' - commits \in {0, 1}
        /\ commits' # commits
             => /\ can_request(bucket, now).ret
                /\ bucket' = do_request(can_request(bucket, now).bucket)
        /\ bucket'.allowed_requests_per_second >= 0
        /\ bucket'.allowed_requests_per_15_minutes >= 0 ]_vars

\* C15 witness: both callers have asked at once; one was denied, made to wait
\* a second and then admitted, so that two commits and two dispatches are made.
C15_Witness ==
    /\ commits = 2
    /\ Len(dispatched) = 2
    /\ dispatched[2] > dispatched[1]
    /\ wait = 1
    /\ \A c \in Callers : attempts[c] # <<>>


\* C16 as claimed: a timeout ends a call only while the call awaits a response,
\* and only when the deadline of the awaited request itself has come; it never
\* ends a retry delay, an admission loop or the wait of a later attempt.
C16_TimeoutCancelsOwnWait ==
    [][ \A c \in Callers :
          ( /\ Busy(c) /\ pc'[c] = "done"
            /\ attempts' = attempts
            /\ result'[c] = Absent )
          => /\ pc[c] = "await"
             /\ Last(deadlines[c]) # NONE
             /\ Last(deadlines[c]) <= now ]_vars


\* C17 as claimed, in its finite form: a call waiting in the admission loop
\* leaves the loop only by being admitted and dispatched (it is then awaiting
\* the response); nothing else takes it out of the loop.
C17_WaiterIsDispatched ==
    [][ \A c \in Callers :
          pc[c] = "admit" => pc'[c] \in {"admit", "await"} ]_vars


\* C18 as claimed: after every refill the carry is strictly below one second
\* (a carry of exactly one second is converted too).
C18_CarryBelowOneSecond ==
    bucket.elapsed_time < TicksPerSec

\* C19 as claimed: a refill that sees the clock behind the last check time
\* changes neither counter nor the carry.
C19_BackwardJumpIgnored ==
    [][ (now < bucket.last_check_time /\ bucket'.last_check_time = now)
        => /\ bucket'.elapsed_time = bucket.elapsed_time
           /\ bucket'.allowed_requests_per_second = bucket.allowed_requests_per_second
           /\ bucket'.allowed_requests_per_15_minutes =
                 bucket.allowed_requests_per_15_minutes ]_vars

\* C20: under a clock that never goes back, whatever the callers' interleaving,
\* the whole seconds converted into credits so far plus the carry make up the
\* time between the construction (at 0) and the last refill check.
C20_NoTimeLostOrDoubled ==
    converted * TicksPerSec + bucket.elapsed_time = bucket.last_check_time

\* C20 witness: two dispatches have been made, a denied caller has had
\* get_next_request refill after can_request, whole seconds have been converted
\* and a fraction of a second is carried.
C20_Witness ==
    /\ Len(dispatched) >= 2
    /\ wait > 0
    /\ converted >= 1
    /\ bucket.elapsed_time > 0
    /\ bucket.elapsed_time < TicksPerSec


\* C21: in every state of the bucket, whatever the clock, get_next_request
\* answers 0 exactly when can_request answers True; otherwise 5 when the
\* 15-minute counter holds less than one token (the per-second counter short or
\* not) and 1 when only the per-second counter does; it never reaches its raise.
C21_WaitMatchesCounters ==
    LET g == get_next_request(bucket, now)
        r == can_request(bucket, now)
    IN  /\ g.ret = 0 <=> r.ret
        /\ g.bucket = r.bucket
        /\ g.bucket.allowed_requests_per_15_minutes < Window15 => g.ret = 5
        /\ ( /\ g.bucket.allowed_requests_per_15_minutes >= Window15
             /\ g.bucket.allowed_requests_per_second < 1 ) => g.ret = 1
        /\ g.ret \in {0, 1, 5}

\* C21 witness: both counters hold less than one token after two commits and
\* get_next_request has answered 5.
C21_Witness ==
    /\ commits = 2
    /\ bucket.allowed_requests_per_15_minutes < Window15
    /\ bucket.allowed_requests_per_second < 1
    /\ ~admitted
    /\ wait = 5
    /\ get_next_request(bucket, now).ret = 5


\* C22 as claimed: a 200 response whose body is neither an object nor an array
\* ends the call with a raised failure, whatever propagate_exceptions is.
C22_MalformedIsFailure ==
    \A c \in Callers :
        ( /\ Done(c) /\ Received(c)
          /\ Last(attempts[c]).status = 200
          /\ Last(attempts[c]).body \in {"scalar", "empty"} )
        => result[c].kind = "raise"


\* A value that is neither absent (None) nor empty (the empty string).
Present(v) == ~(v.kind = "none" \/ (v.kind = "str" /\ v.text = ""))

\* The query string C23 describes: every named parameter with a present value,
\* once and in the order given, then api_key.
RECURSIVE PresentQuery(_, _)
PresentQuery(kv, first) ==
    IF kv = <<>>
    THEN <<(IF first THEN "?" ELSE "&"), "api_key", "=", api_key.text>>
    ELSE IF Present(Head(kv)[2])
         THEN <<(IF first THEN "?" ELSE "&"), Head(kv)[1], "=", Head(kv)[2].text>>
                 \o PresentQuery(Tail(kv), FALSE)
         ELSE PresentQuery(Tail(kv), first)

\* C23 as claimed: the URL a call's first attempt is dispatched to is the
\* endpoint template filled with the positional arguments in order, followed by
\* the query string of the present named parameters (the number 0 included)
\* and api_key.
C23_QueryOfPresentParams ==
    [][ \A c \in Callers :
          (attempts[c] = <<>> /\ Len(attempts'[c]) = 1)
          => attempts'[c][1].url =
                <<"https://api.brawlhalla.com/">>
                   \o format(req[c].endpoint, req[c].args) \o <<"/">>
                   \o PresentQuery(req[c].kvargs, TRUE) ]_vars


\* C24: under a clock that never goes back, t seconds after construction the
\* pipeline has made at most requests_per_second * (1 + floor(t)) commits and
\* at most requests_per_15_minutes * (1 + floor(t) / 900): the initial capacity
\* plus what the whole elapsed seconds have refilled.
C24_CommitsWithinCredit ==
    LET seconds == now \div TicksPerSec
    IN  /\ commits <= options.requests_per_second * (1 + seconds)
        /\ commits * Window15
              <= options.requests_per_15_minutes * (Window15 + seconds)

\* C24 witness: the two initial long-window tokens are spent, the clock has
\* gone on by LongJump seconds and a third commit has been made on the token
\* refilled meanwhile.
C24_Witness ==
    /\ options.requests_per_15_minutes = 2
    /\ commits = 3
    /\ Len(dispatched) = 3
    /\ now >= LongJump * TicksPerSec
    /\ bucket.allowed_requests_per_15_minutes < Window15

====
